---- MODULE Spec2Model ----
(***************************************************************************)
(* Model of extensions/js.neutralino.discordrpc/bridge.py: the Discord     *)
(* rich-presence bridge.  It reads one configuration line, connects to the *)
(* Discord IPC socket, sets an idle presence, connects to the Neutralino   *)
(* WebSocket server and forwards discord:update / discord:clear events     *)
(* until the parent dies, the peer closes or a windowClose event arrives.  *)
(*                                                                         *)
(* Python values are records tagged by type; strings are sequences of      *)
(* one-character strings, byte strings are sequences of 0..255.            *)
(***************************************************************************)
EXTENDS Integers, Sequences, FiniteSets, TLC

(***************************************************************************)
(* Bounds of the model.                                                    *)
(***************************************************************************)
\* WebSocket frames the server sends in one run.
MaxFrames == 2

\* Bytes the receive buffer of the WebSocket holds (the receive window).
MaxBuf == 6

\* Bytes of an IPC frame the stream of a wire-format input may hold.
MaxCut == 50

\* Largest integer payload length drawn for the length-decoding inputs
\* beyond the fixed cases.
MaxSmallLen == 130

(***************************************************************************)
(* Python values.                                                          *)
(***************************************************************************)
None == [t |-> "none"]

Absent == [t |-> "absent"]

StrV(s) == [t |-> "str", v |-> s]

IntV(n) == [t |-> "int", v |-> n]

DigitChars == <<"0", "1", "2", "3", "4", "5", "6", "7", "8", "9">>

RECURSIVE NatStr(_)
NatStr(n) ==
    IF n < 10 THEN <<DigitChars[n + 1]>>
    ELSE NatStr(n \div 10) \o <<DigitChars[(n % 10) + 1]>>

IntStr(n) == IF n < 0 THEN <<"-">> \o NatStr(-n) ELSE NatStr(n)

\* str(v), and the text an f-string puts for {v}.
PyStr(v) ==
    CASE v.t = "none" -> <<"N", "o", "n", "e">>
      [] v.t = "str" -> v.v
      [] v.t = "int" -> IntStr(v.v)

\* bool(v)
Truthy(v) ==
    CASE v.t = "none" -> FALSE
      [] v.t = "str" -> v.v # <<>>
      [] v.t = "int" -> v.v # 0

\* a or b
PyOr(a, b) == IF Truthy(a) THEN a ELSE b

DigitVal(c) == CHOOSE d \in 0..9 : DigitChars[d + 1] = c

IsDigits(s) == Len(s) > 0 /\ \A i \in 1..Len(s) : \E d \in 0..9 : DigitChars[d + 1] = s[i]

RECURSIVE DigitsVal(_)
DigitsVal(s) ==
    IF Len(s) = 0 THEN 0
    ELSE 10 * DigitsVal(SubSeq(s, 1, Len(s) - 1)) + DigitVal(s[Len(s)])

\* int(v): [ok, v]; ok = FALSE stands for the ValueError / TypeError raised.
PyInt(v) ==
    CASE v.t = "int" -> [ok |-> TRUE, v |-> v.v]
      [] v.t = "str" ->
            IF IsDigits(v.v) THEN [ok |-> TRUE, v |-> DigitsVal(v.v)]
            ELSE IF Len(v.v) > 1 /\ v.v[1] = "-" /\ IsDigits(Tail(v.v))
                 THEN [ok |-> TRUE, v |-> 0 - DigitsVal(Tail(v.v))]
                 ELSE [ok |-> FALSE, v |-> 0]
      [] OTHER -> [ok |-> FALSE, v |-> 0]

\* s.startswith(p)
StartsWith(s, p) == Len(s) >= Len(p) /\ SubSeq(s, 1, Len(p)) = p

(***************************************************************************)
(* String literals of the source.                                          *)
(***************************************************************************)
CLIENT_ID == "1462186088184549661"

S_Idling == <<"I", "d", "l", "i", "n", "g">>

S_SteqMusic == <<"S", "t", "e", "q", "M", "u", "s", "i", "c">>

S_steqmusic == <<"s", "t", "e", "q", "m", "u", "s", "i", "c">>

S_http == <<"h", "t", "t", "p">>

S_dash == <<"-">>

(***************************************************************************)
(* set_activity: the dedup key, the activity descriptor, the send.         *)
(* The arguments are a record of the eight update fields.                  *)
(***************************************************************************)
Args(details, state, img, start, end, large_text, small_img, small_txt) ==
    [details |-> details, state |-> state, img |-> img, start |-> start,
     end |-> end, large_text |-> large_text, small_img |-> small_img,
     small_txt |-> small_txt]

\* set_activity(ds, ppid, "Idling", "SteqMusic"): the other six default to None.
IdleArgs == Args(StrV(S_Idling), StrV(S_SteqMusic), None, None, None, None, None, None)

\* line 29: the f-string joining the eight raw fields with "-".
DedupKey(a) ==
    PyStr(a.details) \o S_dash \o PyStr(a.state) \o S_dash \o PyStr(a.img) \o S_dash
      \o PyStr(a.start) \o S_dash \o PyStr(a.end) \o S_dash \o PyStr(a.large_text)
      \o S_dash \o PyStr(a.small_img) \o S_dash \o PyStr(a.small_txt)

\* line 38: img if img and img.startswith('http') else "steqmusic".
\* ok = FALSE: img is truthy and no string, so .startswith raises.
LargeImage(img) ==
    IF ~Truthy(img) THEN [ok |-> TRUE, v |-> StrV(S_steqmusic)]
    ELSE IF img.t # "str" THEN [ok |-> FALSE, v |-> Absent]
    ELSE IF StartsWith(img.v, S_http) THEN [ok |-> TRUE, v |-> img]
    ELSE [ok |-> TRUE, v |-> StrV(S_steqmusic)]

\* lines 47-50: int(start), int(end) for the truthy ones.
Timestamps(a) ==
    LET s == IF Truthy(a.start) THEN PyInt(a.start) ELSE [ok |-> TRUE, v |-> 0]
        e == IF Truthy(a.end) THEN PyInt(a.end) ELSE [ok |-> TRUE, v |-> 0]
    IN  [ok |-> s.ok /\ e.ok,
         start |-> IF Truthy(a.start) /\ s.ok THEN IntV(s.v) ELSE Absent,
         end |-> IF Truthy(a.end) /\ e.ok THEN IntV(e.v) ELSE Absent]

\* lines 33-50: the activity dict; ok = FALSE when building it raises.
BuildActivity(a) ==
    LET li == LargeImage(a.img)
        ts == Timestamps(a)
    IN  [ok |-> li.ok /\ ts.ok,
         activity |->
            [details |-> StrV(PyStr(PyOr(a.details, StrV(S_Idling)))),
             state |-> StrV(PyStr(PyOr(a.state, StrV(S_SteqMusic)))),
             type |-> 2,
             large_image |-> li.v,
             large_text |-> StrV(PyStr(PyOr(a.large_text, StrV(S_SteqMusic)))),
             small_image |-> IF Truthy(a.small_img) THEN StrV(PyStr(a.small_img)) ELSE Absent,
             small_text |-> IF Truthy(a.small_img)
                            THEN StrV(PyStr(PyOr(a.small_txt, StrV(<<>>)))) ELSE Absent,
             start |-> ts.start,
             end |-> ts.end]]

\* The SET_ACTIVITY command written with opcode 1 (the nonce, a fresh uuid4,
\* is left out); activity = None clears the presence.
SetActivityCmd(pid, activity) ==
    [op |-> 1, data |-> [cmd |-> "SET_ACTIVITY", pid |-> pid, activity |-> activity]]

\* line 77: the handshake frame, opcode 0.
HandshakeCmd == [op |-> 0, data |-> [v |-> 1, client_id |-> CLIENT_ID]]

\* send_packet on the IPC socket: the frame is written when Discord is up,
\* sendall raises otherwise.  [ok, out]: out is the frames written.
SendFrame(up, frame) ==
    IF up THEN [ok |-> TRUE, out |-> <<frame>>] ELSE [ok |-> FALSE, out |-> <<>>]

\* set_activity: [last, out, exc]: the new LAST_STATUS, the frames written,
\* whether an exception leaves the function.
SetActivity(last, up, pid, a) ==
    LET current == DedupKey(a)
        b == BuildActivity(a)
        r == SendFrame(up, SetActivityCmd(pid, b.activity))
    IN  IF current = last THEN [last |-> last, out |-> <<>>, exc |-> FALSE]
        ELSE IF ~b.ok THEN [last |-> current, out |-> <<>>, exc |-> TRUE]
        ELSE [last |-> current, out |-> r.out, exc |-> ~r.ok]

(***************************************************************************)
(* The environment's inputs.                                               *)
(***************************************************************************)
\* os.getppid()
PPID == 4242

S_A == <<"A">>

S_B == <<"B">>

S_Art == <<"A", "r", "t">>

S_abc == <<"a", "b", "c">>

S_url == <<"h", "t", "t", "p", ":", "/", "/", "x">>

S_customKey == <<"c", "u", "s", "t", "o", "m", "K", "e", "y">>

\* The parsed configuration line: a dict with the three keys (Absent: the key
\* is missing), or a JSON value that is no dict.
Config(kind, port, ext, tok) ==
    [kind |-> kind, nlPort |-> port, nlExtensionId |-> ext, nlConnectToken |-> tok]

CfgFull == Config("dict", IntV(8080), StrV(S_A), StrV(S_B))

CfgEmpty == Config("dict", Absent, Absent, Absent)

CfgList == Config("list", Absent, Absent, Absent)

CfgBadPort == Config("dict", StrV(S_abc), StrV(S_A), StrV(S_B))

CfgNoToken == Config("dict", IntV(8080), StrV(S_A), Absent)

\* sys.stdin.readline() and json.loads of it: end of file, a line that is
\* not JSON, or a JSON value.
StdinLines ==
    {[kind |-> "eof", value |-> CfgList], [kind |-> "garbage", value |-> CfgList]}
      \cup {[kind |-> "json", value |-> c] :
               c \in {CfgFull, CfgEmpty, CfgList, CfgBadPort, CfgNoToken}}

\* The shape {nlPort:int, nlExtensionId:string, nlConnectToken:string}.
ConfigShapeOK(line) ==
    /\ line.kind = "json"
    /\ line.value.kind = "dict"
    /\ line.value.nlPort.t = "int"
    /\ line.value.nlExtensionId.t = "str"
    /\ line.value.nlConnectToken.t = "str"

\* The sets of indices i for which discord-ipc-i exists.
IpcPathSets == {{}, {3, 7}}

\* The messages the server's frames carry, as json.loads gives them:
\* event (Absent: no such key) and data (Absent: no such key; else the eight
\* values d.get(...) returns).
Msg(event, data) == [event |-> event, data |-> data]

UpdateMsg(a) == Msg("discord:update", [t |-> "dict", f |-> a])

WsMsgs ==
    << UpdateMsg(Args(StrV(S_A), StrV(S_Art), None, None, None, None, None, None)),
       UpdateMsg(Args(None, None, None, None, None, None, None, None)),
       UpdateMsg(Args(StrV(S_Idling), StrV(S_SteqMusic), None, None, None, None, None, None)),
       UpdateMsg(Args(StrV(S_A), StrV(S_Art), None, StrV(S_abc), None, None, None, None)),
       Msg("discord:clear", Absent),
       Msg("windowClose", Absent),
       Msg("ready", Absent) >>

ClearCode == 5

CloseCode == 6

\* The payload text of message number c, abstracted to two bytes: "{" and the
\* number.  Code 0 is a payload that is not JSON.
WsPayload(c) == <<123, c>>

\* json.loads(data.decode('utf-8')) on such a payload: ok = FALSE when it raises.
WsJsonLoads(data) ==
    IF Len(data) = 2 /\ data[1] = 123 /\ data[2] \in 1..Len(WsMsgs)
    THEN [ok |-> TRUE, msg |-> WsMsgs[data[2]]]
    ELSE [ok |-> FALSE, msg |-> Msg("", Absent)]

\* A text frame with FIN set (0x81) in the 7-bit, 16-bit and 64-bit length forms.
WsFrame(c, enc) ==
    CASE enc = 7 -> <<129, 2>> \o WsPayload(c)
      [] enc = 16 -> <<129, 126, 0, 2>> \o WsPayload(c)
      [] enc = 64 -> <<129, 127, 0, 0, 0, 0, 0, 0, 0, 2>> \o WsPayload(c)

\* The frames the server may send.
ServerFrames ==
    {WsFrame(c, 7) : c \in 0..Len(WsMsgs)}
      \cup {WsFrame(CloseCode, 16), WsFrame(ClearCode, 64)}

\* The HTTP response header, abstracted to "H" and the blank line.
HttpResp == <<72, 13, 10, 13, 10>>

HttpTerminator == <<13, 10, 13, 10>>

\* b"\r\n\r\n" in resp
Contains(s, p) ==
    \E i \in 1..(Len(s) - Len(p) + 1) : SubSeq(s, i, i + Len(p) - 1) = p

(***************************************************************************)
(* The IPC wire format: send_packet and recv_packet on bytes.              *)
(* json.dumps / json.loads are modelled on None, bool, int, str (printable *)
(* ASCII without quote and backslash, so nothing is escaped), list and     *)
(* dict (a sequence of <<key, value>> pairs, keys being strings).          *)
(***************************************************************************)
BoolV(b) == [t |-> "bool", v |-> b]

ListV(s) == [t |-> "list", v |-> s]

DictV(s) == [t |-> "dict", v |-> s]

\* The printable ASCII characters, 32 to 126 (three of them by name).
AsciiChars ==
    << " ", "!", "QUOTE", "#", "$", "%", "&", "'", "(", ")", "*", "+", ",", "-", ".", "/",
       "0", "1", "2", "3", "4", "5", "6", "7", "8", "9", ":", ";", "<", "=", ">", "?",
       "@", "A", "B", "C", "D", "E", "F", "G", "H", "I", "J", "K", "L", "M", "N", "O",
       "P", "Q", "R", "S", "T", "U", "V", "W", "X", "Y", "Z", "[", "BACKSLASH", "]", "^", "_",
       "BACKTICK", "a", "b", "c", "d", "e", "f", "g", "h", "i", "j", "k", "l", "m", "n", "o",
       "p", "q", "r", "s", "t", "u", "v", "w", "x", "y", "z", "{", "|", "}", "~" >>

Ord(c) == 31 + (CHOOSE i \in 1..Len(AsciiChars) : AsciiChars[i] = c)

Chr(b) == AsciiChars[b - 31]

\* s.encode('utf-8') and b.decode('utf-8') on such text.
Utf8(s) == [i \in 1..Len(s) |-> Ord(s[i])]

Utf8Decode(b) == [i \in 1..Len(b) |-> Chr(b[i])]

B_null == Utf8(<<"n", "u", "l", "l">>)

B_true == Utf8(<<"t", "r", "u", "e">>)

B_false == Utf8(<<"f", "a", "l", "s", "e">>)

RECURSIVE JsonDumps(_), DumpItems(_), DumpMembers(_)
\* json.dumps(x).encode('utf-8'), line 14
JsonDumps(x) ==
    CASE x.t = "none" -> B_null
      [] x.t = "bool" -> IF x.v THEN B_true ELSE B_false
      [] x.t = "int" -> Utf8(IntStr(x.v))
      [] x.t = "str" -> <<34>> \o Utf8(x.v) \o <<34>>
      [] x.t = "list" -> <<91>> \o DumpItems(x.v) \o <<93>>
      [] x.t = "dict" -> <<123>> \o DumpMembers(x.v) \o <<125>>

DumpItems(s) ==
    IF Len(s) = 0 THEN <<>>
    ELSE IF Len(s) = 1 THEN JsonDumps(s[1])
    ELSE JsonDumps(s[1]) \o <<44, 32>> \o DumpItems(Tail(s))

DumpMembers(s) ==
    IF Len(s) = 0 THEN <<>>
    ELSE LET m == <<34>> \o Utf8(s[1][1]) \o <<34, 58, 32>> \o JsonDumps(s[1][2])
         IN  IF Len(s) = 1 THEN m ELSE m \o <<44, 32>> \o DumpMembers(Tail(s))

\* The parser's results: [ok, v, i], i the index after the value.
ParseFail == [ok |-> FALSE, v |-> None, i |-> 0]

ParseOk(v, i) == [ok |-> TRUE, v |-> v, i |-> i]

IsDigitByte(c) == c \in 48..57

RECURSIVE SkipWs(_, _)
SkipWs(b, i) == IF i <= Len(b) /\ b[i] \in {32, 9, 10, 13} THEN SkipWs(b, i + 1) ELSE i

HasLiteral(b, i, lit) == i + Len(lit) - 1 <= Len(b) /\ SubSeq(b, i, i + Len(lit) - 1) = lit

\* A string starting at the quote b[i]: up to the next quote; a backslash,
\* a control character or a byte that is not ASCII makes it fail.
ParseString(b, i) ==
    IF \E j \in (i + 1)..Len(b) : b[j] = 34
    THEN LET j == CHOOSE k \in (i + 1)..Len(b) :
                     b[k] = 34 /\ \A m \in (i + 1)..(k - 1) : b[m] # 34
         IN  IF \A m \in (i + 1)..(j - 1) : b[m] \in 32..126 /\ b[m] # 92
             THEN ParseOk(StrV(Utf8Decode(SubSeq(b, i + 1, j - 1))), j + 1)
             ELSE ParseFail
    ELSE ParseFail

RECURSIVE DigitsEnd(_, _)
DigitsEnd(b, i) == IF i <= Len(b) /\ IsDigitByte(b[i]) THEN DigitsEnd(b, i + 1) ELSE i

\* An integer: -?(0|[1-9][0-9]*); fractions and exponents are not modelled.
ParseNumber(b, i) ==
    LET s == IF b[i] = 45 THEN i + 1 ELSE i
        e == IF s <= Len(b) /\ b[s] = 48 THEN s + 1 ELSE DigitsEnd(b, s)
        n == DigitsVal(Utf8Decode(SubSeq(b, s, e - 1)))
    IN  IF e = s THEN ParseFail
        ELSE ParseOk(IntV(IF b[i] = 45 THEN 0 - n ELSE n), e)

RECURSIVE ParseValue(_, _), ParseElems(_, _, _), ParseMembers(_, _, _)
ParseValue(b, i) ==
    IF i > Len(b) THEN ParseFail
    ELSE CASE b[i] = 34 -> ParseString(b, i)
           [] b[i] = 45 \/ IsDigitByte(b[i]) -> ParseNumber(b, i)
           [] b[i] = 110 -> IF HasLiteral(b, i, B_null) THEN ParseOk(None, i + 4) ELSE ParseFail
           [] b[i] = 116 -> IF HasLiteral(b, i, B_true) THEN ParseOk(BoolV(TRUE), i + 4)
                            ELSE ParseFail
           [] b[i] = 102 -> IF HasLiteral(b, i, B_false) THEN ParseOk(BoolV(FALSE), i + 5)
                            ELSE ParseFail
           [] b[i] = 91 ->
                LET j == SkipWs(b, i + 1)
                IN  IF j <= Len(b) /\ b[j] = 93 THEN ParseOk(ListV(<<>>), j + 1)
                    ELSE ParseElems(b, j, <<>>)
           [] b[i] = 123 ->
                LET j == SkipWs(b, i + 1)
                IN  IF j <= Len(b) /\ b[j] = 125 THEN ParseOk(DictV(<<>>), j + 1)
                    ELSE ParseMembers(b, j, <<>>)
           [] OTHER -> ParseFail

ParseElems(b, i, acc) ==
    LET v == ParseValue(b, i)
        j == SkipWs(b, v.i)
    IN  IF ~v.ok \/ j > Len(b) THEN ParseFail
        ELSE IF b[j] = 44 THEN ParseElems(b, SkipWs(b, j + 1), Append(acc, v.v))
        ELSE IF b[j] = 93 THEN ParseOk(ListV(Append(acc, v.v)), j + 1)
        ELSE ParseFail

ParseMembers(b, i, acc) ==
    LET k == IF i <= Len(b) /\ b[i] = 34 THEN ParseString(b, i) ELSE ParseFail
        c == SkipWs(b, k.i)
        v == IF k.ok /\ c <= Len(b) /\ b[c] = 58 THEN ParseValue(b, SkipWs(b, c + 1))
             ELSE ParseFail
        j == SkipWs(b, v.i)
    IN  IF ~v.ok \/ j > Len(b) THEN ParseFail
        ELSE IF b[j] = 44
             THEN ParseMembers(b, SkipWs(b, j + 1), Append(acc, <<k.v.v, v.v>>))
        ELSE IF b[j] = 125 THEN ParseOk(DictV(Append(acc, <<k.v.v, v.v>>)), j + 1)
        ELSE ParseFail

\* json.loads(payload.decode('utf-8')), line 24: ok = FALSE when it raises.
JsonLoads(b) ==
    LET v == ParseValue(b, SkipWs(b, 1))
    IN  IF v.ok /\ SkipWs(b, v.i) = Len(b) + 1 THEN [ok |-> TRUE, v |-> v.v]
        ELSE [ok |-> FALSE, v |-> None]

\* struct.pack('<I', n) and its inverse (n below 2^31 here).
LE32(n) == <<n % 256, (n \div 256) % 256, (n \div 65536) % 256, (n \div 16777216) % 256>>

FromLE32(b) == b[1] + 256 * b[2] + 65536 * b[3] + 16777216 * b[4]

\* lines 14-16: the bytes send_packet hands to sendall.
send_packet(op, x) ==
    LET payload == JsonDumps(x)
    IN  LE32(op) \o LE32(Len(payload)) \o payload

\* s.recv(n) on a stream holding the bytes b: at most n of them.
Take(b, n) == SubSeq(b, 1, IF Len(b) < n THEN Len(b) ELSE n)

\* lines 18-25 on a stream holding the bytes b: the value returned, None on
\* a short header and on any exception.
recv_packet(b) ==
    LET header == Take(b, 8)
        plen == FromLE32(SubSeq(header, 5, 8))
        payload == Take(SubSeq(b, 9, Len(b)), plen)
        j == JsonLoads(payload)
    IN  IF Len(header) < 8 THEN None
        ELSE IF j.ok THEN j.v ELSE None

(***************************************************************************)
(* The state.                                                              *)
(***************************************************************************)
VARIABLES
    pc,           \* where main() is
    why,          \* why main() left the path to / the event loop
    stdin,        \* the line on standard input
    ipcPaths,     \* the discord-ipc-i that exist
    ipcUp,        \* Discord is serving its IPC socket
    ipcOpen,      \* ds is connected and not closed
    ipcOut,       \* the frames written to ds
    tried,        \* the connections attempted: "ipc", "ws"
    LAST_STATUS,  \* the global of line 5
    parentAlive,  \* the parent process exists
    wsPeer,       \* the server's end: "open", "closed", "reset"
    srv,          \* what the server sends next: "idle", "resp", "frames"
    nSent,        \* frames the server has started
    wsRest,       \* bytes of the current item the server has not sent yet
    wsIn,         \* bytes received and not read yet
    resp,         \* line 102
    length,       \* line 120
    data,         \* line 124
    hsReply,      \* what recv_packet returned at line 78, until line 81 has run
    prevBuilt,    \* history: what the last call of set_activity built
    fnIn,         \* the input of the function under check (PureSpec)
    fnOut         \* its result

vars ==
    <<pc, why, stdin, ipcPaths, ipcUp, ipcOpen, ipcOut, tried, LAST_STATUS,
      parentAlive, wsPeer, srv, nSent, wsRest, wsIn, resp, length, data,
      hsReply, prevBuilt, fnIn, fnOut>>

ipcVars == <<ipcUp, ipcOpen, ipcOut, tried, LAST_STATUS>>

wsVars == <<wsPeer, srv, nSent, wsRest, wsIn>>

loopVars == <<resp, length, data, hsReply>>

pureVars == <<fnIn, fnOut>>

envVars == <<stdin, ipcPaths, parentAlive, pureVars>>

Running == pc \notin {"exited", "crashed"}

\* The state of the bridge when main() is entered.
Boot ==
    /\ pc = "read_config"
    /\ why = "none"
    /\ ipcUp = (ipcPaths # {})
    /\ ipcOpen = FALSE
    /\ ipcOut = <<>>
    /\ tried = {}
    /\ LAST_STATUS = <<>>
    /\ parentAlive = TRUE
    /\ wsPeer = "open"
    /\ srv = "idle"
    /\ nSent = 0
    /\ wsRest = <<>>
    /\ wsIn = <<>>
    /\ resp = <<>>
    /\ length = 0
    /\ data = <<>>
    /\ hsReply = Absent
    /\ prevBuilt = Absent

Idle == [fn |-> "none"]

Init ==
    /\ stdin \in StdinLines
    /\ ipcPaths \in IpcPathSets
    /\ Boot
    /\ fnIn = Idle
    /\ fnOut = Idle

(***************************************************************************)
(* main(), lines 58-108: the start-up.                                     *)
(***************************************************************************)
\* lines 60-64
ReadConfig ==
    /\ pc = "read_config"
    /\ IF stdin.kind = "json"
       THEN pc' = "connect_ipc" /\ why' = why
       ELSE pc' = "exited" /\ why' = "config"
    /\ UNCHANGED <<prevBuilt, ipcVars, wsVars, loopVars, envVars>>

\* lines 7-11: the first i in range(10) whose path exists; -1 for None.
get_discord_path(paths) ==
    IF \E i \in 0..9 : i \in paths
    THEN CHOOSE i \in 0..9 : i \in paths /\ \A j \in 0..(i - 1) : j \notin paths
    ELSE -1

\* lines 69-74: connect fails when the socket file is stale.
ConnectIPC ==
    /\ pc = "connect_ipc"
    /\ IF get_discord_path(ipcPaths) = -1
       THEN pc' = "exited" /\ why' = "no_ipc" /\ UNCHANGED <<ipcOpen, tried>>
       ELSE /\ tried' = tried \cup {"ipc"}
            /\ IF ipcUp
               THEN pc' = "ipc_handshake" /\ ipcOpen' = TRUE /\ why' = why
               ELSE pc' = "exited" /\ ipcOpen' = FALSE /\ why' = "ipc_connect"
    /\ UNCHANGED <<prevBuilt, ipcUp, ipcOut, LAST_STATUS, wsVars, loopVars, envVars>>

\* The response of Discord to the handshake: the READY frame.
HandshakeReply ==
    DictV(<< <<<<"c", "m", "d">>, StrV(<<"D", "I", "S", "P", "A", "T", "C", "H">>)>>,
             <<<<"e", "v", "t">>, StrV(<<"R", "E", "A", "D", "Y">>)>> >>)

\* What the reads of lines 20 and 23 may find on ds: the whole response, the
\* response short of its last byte (the rest has not arrived yet), half a
\* header, or nothing (Discord has shut its end down).
IpcReplies ==
    LET whole == send_packet(1, HandshakeReply)
    IN  {whole, Take(whole, Len(whole) - 1), Take(whole, 4), <<>>}

\* lines 77-78: send_packet raises out of main when the write fails;
\* recv_packet's result is dropped, None included.
IPCHandshake ==
    /\ pc = "ipc_handshake"
    /\ LET r == SendFrame(ipcUp, HandshakeCmd)
       IN  /\ ipcOut' = ipcOut \o r.out
           /\ IF r.ok
              THEN /\ pc' = "set_idle" /\ why' = why
                   /\ \E reply \in IpcReplies : hsReply' = recv_packet(reply)
              ELSE pc' = "crashed" /\ why' = "ipc_handshake" /\ hsReply' = hsReply
    /\ UNCHANGED <<prevBuilt, ipcUp, ipcOpen, tried, LAST_STATUS, wsVars, resp, length,
                   data, envVars>>

\* lines 80-81
SetIdle ==
    /\ pc = "set_idle"
    /\ LET r == SetActivity(LAST_STATUS, ipcUp, PPID, IdleArgs)
       IN  /\ LAST_STATUS' = r.last
           /\ ipcOut' = ipcOut \o r.out
           /\ IF r.exc THEN pc' = "crashed" /\ why' = "set_idle"
              ELSE pc' = "connect_ws" /\ why' = why
    /\ prevBuilt' = BuildActivity(IdleArgs)
    /\ hsReply' = Absent
    /\ UNCHANGED <<ipcUp, ipcOpen, tried, wsVars, resp, length, data, envVars>>

\* line 87: int(config['nlPort']); ok = FALSE when it raises.
ConfigPort(cfg) ==
    IF cfg.kind = "dict" /\ cfg.nlPort.t # "absent" THEN PyInt(cfg.nlPort)
    ELSE [ok |-> FALSE, v |-> 0]

\* lines 84-88: any exception of the connect returns from main.
ConnectWS ==
    /\ pc = "connect_ws"
    /\ IF ~ConfigPort(stdin.value).ok
       THEN pc' = "exited" /\ why' = "ws_connect" /\ tried' = tried
       ELSE /\ tried' = tried \cup {"ws"}
            /\ \E listening \in BOOLEAN :
                 IF listening THEN pc' = "ws_handshake" /\ why' = why
                 ELSE pc' = "exited" /\ why' = "ws_connect"
    /\ UNCHANGED <<prevBuilt, ipcUp, ipcOpen, ipcOut, LAST_STATUS, wsVars, loopVars, envVars>>

\* lines 90-99: the f-string raises KeyError on a missing key, sendall raises
\* on a reset connection; neither is caught.
WSHandshakeSend ==
    /\ pc = "ws_handshake"
    /\ IF \/ stdin.value.nlExtensionId.t = "absent"
          \/ stdin.value.nlConnectToken.t = "absent"
          \/ wsPeer = "reset"
       THEN pc' = "crashed" /\ why' = "ws_handshake" /\ srv' = srv
       ELSE pc' = "ws_resp" /\ why' = why /\ srv' = "resp"
    /\ UNCHANGED <<prevBuilt, ipcVars, wsPeer, nSent, wsRest, wsIn, loopVars, envVars>>

\* ws.recv(n) with the one-second timeout: the bytes of the receive buffer, at
\* most n; b"" once the peer has closed; socket.timeout on an empty buffer;
\* an OSError on a reset connection.
Recv(n) ==
    IF wsPeer = "reset" THEN [kind |-> "error", bytes |-> <<>>, rest |-> wsIn]
    ELSE IF wsIn # <<>>
    THEN LET k == IF Len(wsIn) < n THEN Len(wsIn) ELSE n
         IN  [kind |-> "data", bytes |-> SubSeq(wsIn, 1, k),
              rest |-> SubSeq(wsIn, k + 1, Len(wsIn))]
    ELSE IF wsPeer = "closed" THEN [kind |-> "eof", bytes |-> <<>>, rest |-> wsIn]
    ELSE [kind |-> "timeout", bytes |-> <<>>, rest |-> wsIn]

\* lines 102-108: one turn of the loop that skips the HTTP response.
WSSkipResponse ==
    /\ pc = "ws_resp"
    /\ LET r == Recv(1024)
       IN  CASE r.kind = "error" ->
                  pc' = "crashed" /\ why' = "ws_resp" /\ UNCHANGED <<wsIn, resp>>
             [] r.kind = "timeout" ->
                  UNCHANGED <<pc, why, wsIn, resp>>
             [] r.kind = "eof" ->
                  pc' = "watchdog" /\ resp' = <<>> /\ UNCHANGED <<why, wsIn>>
             [] r.kind = "data" ->
                  /\ wsIn' = r.rest
                  /\ why' = why
                  /\ IF Contains(resp \o r.bytes, HttpTerminator)
                     THEN pc' = "watchdog" /\ resp' = <<>>
                     ELSE pc' = "ws_resp" /\ resp' = resp \o r.bytes
    /\ UNCHANGED <<prevBuilt, ipcVars, wsPeer, srv, nSent, wsRest, length, data, hsReply, envVars>>

(***************************************************************************)
(* main(), lines 111-137: the event loop, one action per blocking call.    *)
(* Every exception but the break of line 115 ends in "continue".           *)
(***************************************************************************)
\* lines 113-115: os.kill(ppid, 0)
Watchdog ==
    /\ pc = "watchdog"
    /\ IF parentAlive THEN pc' = "head" /\ why' = why
       ELSE pc' = "cleanup" /\ why' = "watchdog"
    /\ UNCHANGED <<prevBuilt, ipcVars, wsVars, loopVars, envVars>>

\* head[1] & 127
LowBits(b) == b % 128

\* lines 121-122: the bytes of the extended length, 2 after 126, 8 after 127.
ExtWant(n) == IF n = 126 THEN 2 ELSE 8

\* struct.unpack(">H", b) and struct.unpack(">Q", b): the big-endian value,
\* saturated at LenCap (more bytes than any run of the model delivers).
LenCap == 4194304

\* A decoder that reads the extended length low byte first.
RECURSIVE LittleEndian(_)
LittleEndian(b) ==
    IF Len(b) = 0 THEN 0
    ELSE LET hi == LittleEndian(Tail(b))
             x == hi * 256 + b[1]
         IN  IF x > LenCap THEN LenCap ELSE x

RECURSIVE BigEndian(_)
BigEndian(b) ==
    IF Len(b) = 0 THEN 0
    ELSE LET hi == BigEndian(SubSeq(b, 1, Len(b) - 1))
             x == hi * 256 + b[Len(b)]
         IN  IF x > LenCap THEN LenCap ELSE x

\* After the length is known: line 124 and the test of line 125.
StartPayload(n) ==
    /\ length' = n
    /\ data' = <<>>
    /\ pc' = IF n > 0 THEN "payload" ELSE "dispatch"

\* The "continue" of lines 136-137: the locals are dead.
Continue ==
    /\ pc' = "watchdog"
    /\ length' = 0
    /\ data' = <<>>

\* lines 118-120: ws.recv(2); one byte only makes head[1] raise IndexError.
RecvHead ==
    /\ pc = "head"
    /\ LET r == Recv(2)
       IN  CASE r.kind \in {"error", "timeout"} ->
                  Continue /\ UNCHANGED <<why, wsIn>>
             [] r.kind = "eof" ->
                  pc' = "cleanup" /\ why' = "eof" /\ UNCHANGED <<wsIn, length, data>>
             [] r.kind = "data" ->
                  /\ wsIn' = r.rest
                  /\ why' = why
                  /\ IF Len(r.bytes) < 2 THEN Continue
                     ELSE IF LowBits(r.bytes[2]) \in {126, 127}
                     THEN pc' = "ext" /\ length' = LowBits(r.bytes[2]) /\ data' = <<>>
                     ELSE StartPayload(LowBits(r.bytes[2]))
    /\ UNCHANGED <<prevBuilt, ipcVars, wsPeer, srv, nSent, wsRest, resp, hsReply, envVars>>

\* lines 121-122: ws.recv(2) or ws.recv(8); struct.unpack raises struct.error
\* on fewer bytes.
RecvExt ==
    /\ pc = "ext"
    /\ LET want == ExtWant(length)
           r == Recv(want)
       IN  CASE r.kind \in {"error", "timeout"} ->
                  Continue /\ UNCHANGED <<wsIn>>
             [] r.kind = "eof" ->
                  Continue /\ UNCHANGED <<wsIn>>
             [] r.kind = "data" ->
                  /\ wsIn' = r.rest
                  /\ IF Len(r.bytes) < want THEN Continue
                     ELSE StartPayload(BigEndian(r.bytes))
    /\ UNCHANGED <<prevBuilt, why, ipcVars, wsPeer, srv, nSent, wsRest, resp, hsReply, envVars>>

\* lines 125-126: one turn of the loop that gathers the payload.  On b""
\* (the peer has closed) data does not grow and the loop turns again.
RecvPayload ==
    /\ pc = "payload"
    /\ LET r == Recv(length - Len(data))
       IN  CASE r.kind \in {"error", "timeout"} ->
                  Continue /\ UNCHANGED <<wsIn>>
             [] r.kind = "eof" ->
                  UNCHANGED <<pc, length, data, wsIn>>
             [] r.kind = "data" ->
                  /\ wsIn' = r.rest
                  /\ data' = data \o r.bytes
                  /\ length' = length
                  /\ pc' = IF Len(data \o r.bytes) < length THEN "payload" ELSE "dispatch"
    /\ UNCHANGED <<prevBuilt, why, ipcVars, wsPeer, srv, nSent, wsRest, resp, hsReply, envVars>>

\* A dispatch that treats windowClose as any other event.
DispatchEventNoBreak(d, last, up) ==
    LET j == WsJsonLoads(d)
        stay == [last |-> last, out |-> <<>>, brk |-> FALSE]
    IN  CASE j.ok /\ j.msg.event = "discord:update" /\ j.msg.data.t = "dict" ->
                LET r == SetActivity(last, up, PPID, j.msg.data.f)
                IN  [last |-> r.last, out |-> r.out, brk |-> FALSE]
          [] j.ok /\ j.msg.event = "discord:clear" ->
                LET r == SetActivity(last, up, PPID, IdleArgs)
                IN  [last |-> r.last, out |-> r.out, brk |-> FALSE]
          [] OTHER -> stay

\* A dispatch that takes every event it does not know for discord:clear.
DispatchEventOtherClears(d, last, up) ==
    LET j == WsJsonLoads(d)
        stay == [last |-> last, out |-> <<>>, brk |-> FALSE]
    IN  CASE ~j.ok -> stay
          [] j.ok /\ j.msg.event = "discord:update" ->
                IF j.msg.data.t # "dict" THEN stay
                ELSE LET r == SetActivity(last, up, PPID, j.msg.data.f)
                     IN  [last |-> r.last, out |-> r.out, brk |-> FALSE]
          [] j.ok /\ j.msg.event = "windowClose" ->
                [last |-> last, out |-> <<>>, brk |-> TRUE]
          [] OTHER ->
                LET r == SetActivity(last, up, PPID, IdleArgs)
                IN  [last |-> r.last, out |-> r.out, brk |-> FALSE]

\* lines 128-137 on the payload d: [last, out, brk]: the new LAST_STATUS,
\* the frames written, whether the loop is left.  An exception of json.loads,
\* of msg['event'], of msg['data'] or of set_activity is swallowed by line 137.
DispatchEvent(d, last, up) ==
    LET j == WsJsonLoads(d)
        stay == [last |-> last, out |-> <<>>, brk |-> FALSE]
    IN  CASE ~j.ok -> stay
          [] j.ok /\ j.msg.event = "discord:update" ->
                IF j.msg.data.t # "dict" THEN stay
                ELSE LET r == SetActivity(last, up, PPID, j.msg.data.f)
                     IN  [last |-> r.last, out |-> r.out, brk |-> FALSE]
          [] j.ok /\ j.msg.event = "discord:clear" ->
                LET r == SetActivity(last, up, PPID, IdleArgs)
                IN  [last |-> r.last, out |-> r.out, brk |-> FALSE]
          [] j.ok /\ j.msg.event = "windowClose" ->
                [last |-> last, out |-> <<>>, brk |-> TRUE]
          [] OTHER -> stay

\* The discord:update a payload carries: [is, args].
UpdateOf(d) ==
    LET j == WsJsonLoads(d)
    IN  IF j.ok /\ j.msg.event = "discord:update" /\ j.msg.data.t = "dict"
        THEN [is |-> TRUE, args |-> j.msg.data.f]
        ELSE [is |-> FALSE, args |-> IdleArgs]

EventOf(d) == IF WsJsonLoads(d).ok THEN WsJsonLoads(d).msg.event ELSE ""

Dispatch ==
    /\ pc = "dispatch"
    /\ prevBuilt' =
          IF UpdateOf(data).is THEN BuildActivity(UpdateOf(data).args)
          ELSE IF EventOf(data) = "discord:clear" THEN BuildActivity(IdleArgs)
          ELSE prevBuilt
    /\ LET r == DispatchEvent(data, LAST_STATUS, ipcUp)
       IN  /\ LAST_STATUS' = r.last
           /\ ipcOut' = ipcOut \o r.out
           /\ IF r.brk
              THEN pc' = "cleanup" /\ why' = "windowClose" /\ length' = 0 /\ data' = <<>>
              ELSE Continue /\ why' = why
    /\ UNCHANGED <<ipcUp, ipcOpen, tried, wsVars, resp, hsReply, envVars>>

\* A cleanup that closes the connection without the clearing frame.
CleanupResultNoClear(up, out) == [out |-> out, closed |-> TRUE]

\* lines 140-148: the clearing frame, then ds.close(); an exception of the
\* send skips the close and is swallowed.  main() returns and the process
\* ends: the WebSocket and its unread bytes go with it.
CleanupResult(up, out) ==
    LET r == SendFrame(up, SetActivityCmd(PPID, None))
    IN  [out |-> out \o r.out, closed |-> r.ok]

Cleanup ==
    /\ pc = "cleanup"
    /\ LET r == CleanupResult(ipcUp, ipcOut)
       IN  /\ ipcOut' = r.out
           /\ ipcOpen' = (ipcOpen /\ ~r.closed)
    /\ pc' = "exited"
    /\ wsRest' = <<>>
    /\ wsIn' = <<>>
    /\ UNCHANGED <<prevBuilt, why, ipcUp, tried, LAST_STATUS, wsPeer, srv, nSent, loopVars, envVars>>

(***************************************************************************)
(* The environment: the WebSocket server, the parent, Discord.             *)
(***************************************************************************)
WsConnected ==
    pc \in {"ws_handshake", "ws_resp", "watchdog", "head", "ext", "payload",
            "dispatch", "cleanup"}

\* The server starts its next item (the HTTP response, then frames) and the
\* first k bytes of it arrive.
ServerSend ==
    /\ WsConnected
    /\ wsPeer = "open"
    /\ wsRest = <<>>
    /\ srv \in {"resp", "frames"}
    /\ \E item \in (IF srv = "resp" THEN {HttpResp}
                    ELSE IF nSent < MaxFrames THEN ServerFrames ELSE {}) :
         \E k \in 1..Len(item) :
            /\ Len(wsIn) + k <= MaxBuf
            /\ wsIn' = wsIn \o SubSeq(item, 1, k)
            /\ wsRest' = SubSeq(item, k + 1, Len(item))
    /\ srv' = "frames"
    /\ nSent' = IF srv = "frames" THEN nSent + 1 ELSE nSent
    /\ UNCHANGED <<prevBuilt, pc, why, ipcVars, wsPeer, loopVars, envVars>>

\* More bytes of the current item arrive.
ServerSendRest ==
    /\ WsConnected
    /\ wsPeer = "open"
    /\ wsRest # <<>>
    /\ \E k \in 1..Len(wsRest) :
         /\ Len(wsIn) + k <= MaxBuf
         /\ wsIn' = wsIn \o SubSeq(wsRest, 1, k)
         /\ wsRest' = SubSeq(wsRest, k + 1, Len(wsRest))
    /\ UNCHANGED <<prevBuilt, pc, why, ipcVars, wsPeer, srv, nSent, loopVars, envVars>>

\* The server closes its end; what it had not sent never arrives.
ServerClose ==
    /\ WsConnected
    /\ wsPeer = "open"
    /\ wsPeer' = "closed"
    /\ wsRest' = <<>>
    /\ UNCHANGED <<prevBuilt, pc, why, ipcVars, srv, nSent, wsIn, loopVars, envVars>>

\* The connection is reset: the unread bytes are discarded with it.
ServerReset ==
    /\ WsConnected
    /\ wsPeer = "open"
    /\ wsPeer' = "reset"
    /\ wsRest' = <<>>
    /\ wsIn' = <<>>
    /\ UNCHANGED <<prevBuilt, pc, why, ipcVars, srv, nSent, loopVars, envVars>>

\* The parent exits.
ParentDies ==
    /\ Running
    /\ parentAlive
    /\ parentAlive' = FALSE
    /\ UNCHANGED <<prevBuilt, pc, why, ipcVars, wsVars, loopVars, stdin, ipcPaths, pureVars>>

\* Discord exits: connect and sendall fail from then on.
DiscordQuits ==
    /\ Running
    /\ ipcUp
    /\ ipcUp' = FALSE
    /\ UNCHANGED <<prevBuilt, pc, why, ipcOpen, ipcOut, tried, LAST_STATUS, wsVars, loopVars, envVars>>

(***************************************************************************)
(* The specifications.                                                     *)
(***************************************************************************)
Startup ==
    \/ ReadConfig
    \/ ConnectIPC
    \/ IPCHandshake
    \/ SetIdle
    \/ ConnectWS
    \/ WSHandshakeSend
    \/ WSSkipResponse

EventLoop ==
    \/ Watchdog
    \/ RecvHead
    \/ RecvExt
    \/ RecvPayload
    \/ Dispatch
    \/ Cleanup

Environment ==
    \/ ServerSend
    \/ ServerSendRest
    \/ ServerClose
    \/ ServerReset
    \/ ParentDies
    \/ DiscordQuits

Next == Startup \/ EventLoop \/ Environment

Spec == Init /\ [][Next]_vars

\* The interpreter runs main() on: each call of the event loop returns or
\* raises (the reads have the one-second timeout of line 85).
FairSpec == Init /\ [][Next]_vars /\ WF_vars(EventLoop)

(***************************************************************************)
(* The WebSocket length decoding of lines 118-122 on a stream holding the  *)
(* bytes b, each recv returning what is there: [ok, length, used], ok =    *)
(* FALSE when no length is decoded (timeout, IndexError, struct.error),    *)
(* used the bytes read.                                                    *)
(***************************************************************************)
DecodeLength(b) ==
    LET head == Take(b, 2)
        n == LowBits(head[2])
        ext == Take(SubSeq(b, 3, Len(b)), ExtWant(n))
    IN  IF Len(head) < 2 THEN [ok |-> FALSE, length |-> 0, used |-> Len(head)]
        ELSE IF n \notin {126, 127} THEN [ok |-> TRUE, length |-> n, used |-> 2]
        ELSE IF Len(ext) < ExtWant(n) THEN [ok |-> FALSE, length |-> n, used |-> 2 + Len(ext)]
        ELSE [ok |-> TRUE, length |-> BigEndian(ext), used |-> 2 + ExtWant(n)]

\* The header the server writes for a payload of n bytes in the form enc
\* (RFC 6455, 5.2): FIN and opcode text, the mask bit, the length.
WsHeader(enc, n, mask) ==
    CASE enc = 7 -> <<129, 128 * mask + n>>
      [] enc = 16 -> <<129, 128 * mask + 126, (n \div 256) % 256, n % 256>>
      [] enc = 64 -> <<129, 128 * mask + 127, 0, 0, 0, 0, (n \div 16777216) % 256,
                       (n \div 65536) % 256, (n \div 256) % 256, n % 256>>

\* The form a server uses for n bytes: the shortest.
MinimalEnc(n) == IF n < 126 THEN 7 ELSE IF n < 65536 THEN 16 ELSE 64

(***************************************************************************)
(* PureSpec: the functions applied to inputs drawn from bounded sets.      *)
(***************************************************************************)
BuildInputs ==
    {[fn |-> "set_activity", args |-> Args(d, st, img, start, None, lt, si, stx)] :
        d \in {None, StrV(S_A), StrV(<<>>)},
        st \in {None, StrV(S_Art)},
        img \in {None, StrV(<<>>), StrV(S_url), StrV(S_customKey), StrV(S_http \o <<"s">>),
                 IntV(5)},
        start \in {None, IntV(100), StrV(S_abc), StrV(<<"2", "0">>)},
        lt \in {None, StrV(S_B)},
        si \in {None, StrV(S_customKey)},
        stx \in {None, StrV(S_A)}}

\* Payloads of the JSON data model.
JsonValues ==
    {None, BoolV(TRUE), BoolV(FALSE), IntV(0), IntV(7), IntV(12), IntV(123), IntV(-5),
     StrV(<<>>), StrV(S_A), StrV(S_abc),
     ListV(<<>>), ListV(<<IntV(1), IntV(2)>>), ListV(<<StrV(S_A), None>>),
     DictV(<<>>), DictV(<< <<<<"v">>, IntV(1)>>, <<<<"i", "d">>, StrV(S_A)>> >>),
     DictV(<< <<<<"c", "m", "d">>, StrV(S_A)>>,
              <<<<"a">>, DictV(<< <<<<"p">>, IntV(42)>>, <<<<"x">>, None>> >>)>> >>)}

\* cut: how many bytes of the frame the stream holds.
IpcInputs ==
    {[fn |-> "ipc", op |-> op, x |-> x, cut |-> cut] :
        op \in {0, 1}, x \in JsonValues, cut \in 0..MaxCut}

WsLenInputs ==
    {[fn |-> "wslen", enc |-> enc, n |-> n, mask |-> mask, cut |-> cut] :
        enc \in {7, 16, 64},
        n \in 0..MaxSmallLen \cup {200, 255, 256, 65535, 65536, 70000},
        mask \in {0, 1},
        cut \in {0, 1, 2, 3, 4, 9, 10, 12}}

\* The stream of a length-decoding input: the header, then two payload bytes.
WsLenStream(in) == Take(WsHeader(in.enc, in.n, in.mask) \o <<123, 125>>, in.cut)

\* The stream of an IPC input.
IpcStream(in) == Take(send_packet(in.op, in.x), in.cut)

\* Payloads handed to the dispatch of lines 128-137, with the stored key and
\* Discord up or gone.
DispatchInputs ==
    {[fn |-> "dispatch", d |-> d, last |-> last, up |-> up] :
        d \in {WsPayload(c) : c \in 0..Len(WsMsgs)} \cup {<<>>},
        last \in {<<>>, DedupKey(IdleArgs),
                  DedupKey(Args(StrV(S_A), StrV(S_Art), None, None, None, None, None, None))},
        up \in BOOLEAN}

S_None == <<"N", "o", "n", "e">>

\* Updates whose text fields hold the separator of line 29 or the text "None".
KeyArgs ==
    {Args(d, st, None, None, None, None, None, None) :
        d \in {None, StrV(S_None), StrV(S_A), StrV(S_A \o S_dash \o S_B)},
        st \in {None, StrV(S_None), StrV(S_Art), StrV(S_B \o S_dash \o S_Art)}}

\* Two calls of set_activity to compare.
KeyInputs == {[fn |-> "keys", a |-> a, b |-> b] : a \in KeyArgs, b \in KeyArgs}

PureInit ==
    /\ stdin = [kind |-> "eof", value |-> CfgList]
    /\ ipcPaths = {}
    /\ Boot
    /\ \/ fnIn \in BuildInputs
       \/ fnIn \in {in \in IpcInputs : in.cut <= Len(send_packet(in.op, in.x))}
       \/ fnIn \in {in \in WsLenInputs :
                      /\ in.enc = 7 => in.n < 126
                      /\ in.enc = 16 => in.n < 65536}
       \/ fnIn \in DispatchInputs
       \/ fnIn \in KeyInputs
    /\ fnOut = Idle

ApplyBuild ==
    /\ fnIn.fn = "set_activity"
    /\ fnOut = Idle
    /\ fnOut' = [fn |-> "set_activity", key |-> DedupKey(fnIn.args),
                 built |-> BuildActivity(fnIn.args)]
    /\ UNCHANGED <<pc, why, ipcVars, wsVars, loopVars, prevBuilt, stdin, ipcPaths,
                   parentAlive, fnIn>>

ApplyIpc ==
    /\ fnIn.fn = "ipc"
    /\ fnOut = Idle
    /\ fnOut' = [fn |-> "ipc", bytes |-> send_packet(fnIn.op, fnIn.x),
                 got |-> recv_packet(IpcStream(fnIn))]
    /\ UNCHANGED <<pc, why, ipcVars, wsVars, loopVars, prevBuilt, stdin, ipcPaths,
                   parentAlive, fnIn>>

ApplyWsLen ==
    /\ fnIn.fn = "wslen"
    /\ fnOut = Idle
    /\ fnOut' = [fn |-> "wslen", got |-> DecodeLength(WsLenStream(fnIn))]
    /\ UNCHANGED <<pc, why, ipcVars, wsVars, loopVars, prevBuilt, stdin, ipcPaths,
                   parentAlive, fnIn>>

ApplyDispatch ==
    /\ fnIn.fn = "dispatch"
    /\ fnOut = Idle
    /\ fnOut' = [fn |-> "dispatch", res |-> DispatchEvent(fnIn.d, fnIn.last, fnIn.up)]
    /\ UNCHANGED <<pc, why, ipcVars, wsVars, loopVars, prevBuilt, stdin, ipcPaths,
                   parentAlive, fnIn>>

ApplyKeys ==
    /\ fnIn.fn = "keys"
    /\ fnOut = Idle
    /\ fnOut' = [fn |-> "keys",
                 ka |-> DedupKey(fnIn.a), kb |-> DedupKey(fnIn.b),
                 builta |-> BuildActivity(fnIn.a), builtb |-> BuildActivity(fnIn.b)]
    /\ UNCHANGED <<pc, why, ipcVars, wsVars, loopVars, prevBuilt, stdin, ipcPaths,
                   parentAlive, fnIn>>

PureNext == ApplyBuild \/ ApplyIpc \/ ApplyWsLen \/ ApplyDispatch \/ ApplyKeys

PureSpec == PureInit /\ [][PureNext]_vars

(***************************************************************************)
(* Shorthands of the properties.                                           *)
(***************************************************************************)
LoopActive == pc \in {"watchdog", "head", "ext", "payload", "dispatch"}

\* main() is over, by return or by an uncaught exception.
Over == pc \in {"exited", "crashed"}

\* main() is over and it left through the event loop.
ExitedFromLoop == pc = "exited" /\ why \in {"watchdog", "eof", "windowClose"}

ClearFrame == SetActivityCmd(PPID, None)

LastIsClear == ipcOut # <<>> /\ ipcOut[Len(ipcOut)] = ClearFrame

\* The step is the dispatch of the payload in data (lines 128-137).
DispatchStep == pc = "dispatch" /\ pc' # "dispatch"

\* The frames the step writes to the IPC connection.
Written == SubSeq(ipcOut', Len(ipcOut) + 1, Len(ipcOut'))

C2_WatchdogReachesCleanup ==
    (LoopActive /\ ~parentAlive) ~> (pc \in {"cleanup", "exited"})

(***************************************************************************)
(* C3.  Explicit close event: the dispatch of a windowClose event writes   *)
(* nothing and leaves the loop for CLEANUP; from then on no payload is     *)
(* dispatched, the only frame written is the clearing SET_ACTIVITY(null),  *)
(* and the IPC connection is closed only in the step that writes it.       *)
(***************************************************************************)
C3_WindowCloseCleanup ==
    [][/\ (DispatchStep /\ EventOf(data) = "windowClose")
            => (pc' = "cleanup" /\ why' = "windowClose" /\ Written = <<>>
                  /\ LAST_STATUS' = LAST_STATUS)
       /\ (why = "windowClose")
            => /\ pc \in {"cleanup", "exited"}
               /\ pc' \in {"cleanup", "exited"}
               /\ Written \in {<<>>, <<ClearFrame>>}
               /\ (ipcOpen' # ipcOpen) => (Written = <<ClearFrame>> /\ ~ipcOpen')
               /\ (pc = "cleanup" /\ pc' = "exited" /\ ipcUp) => Written = <<ClearFrame>>]_vars

C3_Witness ==
    /\ pc = "exited"
    /\ why = "windowClose"
    /\ LastIsClear
    /\ ~ipcOpen
    /\ nSent > 1

(***************************************************************************)
(* C4.  As claimed: on every termination path from the event loop the last *)
(* frame written to the IPC connection is SET_ACTIVITY with activity null. *)
(***************************************************************************)
C4_LastFrameIsClear == ExitedFromLoop => LastIsClear

(***************************************************************************)
(* C4, amended.  On every termination path from the event loop the bridge  *)
(* ends with CLEANUP's clearing write: when Discord still serves the       *)
(* connection the last frame written is SET_ACTIVITY(null) and the         *)
(* connection is closed after it; when the write fails no frame is added   *)
(* and the connection is left open.  The loop is left no other way.        *)
(***************************************************************************)
C4_ClearIsLastWhenWritable ==
    /\ ExitedFromLoop => (IF ipcUp THEN LastIsClear /\ ~ipcOpen ELSE ~LastIsClear /\ ipcOpen)
    /\ (Over /\ ~ExitedFromLoop) => ~LastIsClear

C4_Witness ==
    /\ ExitedFromLoop
    /\ why = "eof"
    /\ LastIsClear
    /\ Len(ipcOut) > 3

(***************************************************************************)
(* C8.  Start-up input: when the line on standard input is absent, is not  *)
(* JSON or has not the shape {nlPort:int, nlExtensionId:string,            *)
(* nlConnectToken:string}, no connection is attempted and no IPC frame is  *)
(* written.                                                                *)
(***************************************************************************)
C8_BadConfigNoConnection ==
    ~ConfigShapeOK(stdin) => (tried = {} /\ ipcOut = <<>> /\ ~ipcOpen)

(***************************************************************************)
(* C9.  A failure after the IPC connection was opened and before the event *)
(* loop (IPC handshake, idle presence, WebSocket connect or handshake)     *)
(* ends main() with the IPC connection closed.                             *)
(***************************************************************************)
C9_StartupFailureClosesIpc ==
    (Over /\ why \in {"ipc_handshake", "set_idle", "ws_connect", "ws_handshake", "ws_resp"})
      => ~ipcOpen

(***************************************************************************)
(* C10.  When the write of the SET_ACTIVITY frame fails in the dispatch of *)
(* a discord:update or discord:clear event, the loop is left for CLEANUP.  *)
(***************************************************************************)
C10_SendFailureLeavesLoop ==
    [][(/\ DispatchStep
        /\ EventOf(data) \in {"discord:update", "discord:clear"}
        /\ ~ipcUp
        /\ LET a == IF UpdateOf(data).is THEN UpdateOf(data).args ELSE IdleArgs
           IN  /\ (EventOf(data) = "discord:update" => UpdateOf(data).is)
               /\ DedupKey(a) # LAST_STATUS
               /\ BuildActivity(a).ok)
         => pc' = "cleanup"]_vars

(***************************************************************************)
(* C5.  Image field policy: the large-image reference is the fallback key  *)
(* for an absent image, the image itself for a URL (prefix http), and the  *)
(* literal key itself for an image that is present and no URL.             *)
(***************************************************************************)
C5_ImagePolicy ==
    (fnOut.fn = "set_activity" /\ fnOut.built.ok)
      => LET img == fnIn.args.img
             ref == fnOut.built.activity.large_image
         IN  /\ img = None => ref = StrV(S_steqmusic)
             /\ (img.t = "str" /\ StartsWith(img.v, S_http)) => ref = img
             /\ (img.t = "str" /\ img.v # <<>> /\ ~StartsWith(img.v, S_http)) => ref = img

(***************************************************************************)
(* C6.  IPC frame round-trip: the bytes of send_packet are the opcode and  *)
(* the payload length as uint32 LE and then that many payload bytes;       *)
(* recv_packet on the whole frame returns the payload sent, and on a       *)
(* stream holding only a part of the frame it accepts nothing.             *)
(***************************************************************************)
C6_IpcRoundTrip ==
    fnOut.fn = "ipc"
      => /\ Len(fnOut.bytes) >= 8
         /\ FromLE32(SubSeq(fnOut.bytes, 1, 4)) = fnIn.op
         /\ FromLE32(SubSeq(fnOut.bytes, 5, 8)) = Len(fnOut.bytes) - 8
         /\ SubSeq(fnOut.bytes, 9, Len(fnOut.bytes)) = JsonDumps(fnIn.x)
         /\ fnIn.cut = Len(fnOut.bytes) => fnOut.got = fnIn.x
         /\ fnIn.cut < Len(fnOut.bytes) => fnOut.got = None

(***************************************************************************)
(* C7.  WebSocket length decoding: for a header announcing n payload bytes *)
(* in the 7-bit form (n < 126), the 16-bit form (marker 126, two bytes     *)
(* big-endian) or the 64-bit form (marker 127, eight bytes big-endian),    *)
(* with or without the mask bit, the length decoded is n and the bytes     *)
(* read are the 2, 4 or 10 bytes of the header, no payload byte; a stream  *)
(* that holds the whole header always decodes.  10, 200 and 70000 go       *)
(* through the 7-bit, 16-bit and 64-bit forms.                             *)
(***************************************************************************)
C7_LengthDecoding ==
    fnOut.fn = "wslen"
      => LET hdr == WsHeader(fnIn.enc, fnIn.n, fnIn.mask)
             marker == LowBits(hdr[2])
             got == fnOut.got
         IN  /\ Len(hdr) = (IF marker = 126 THEN 4 ELSE IF marker = 127 THEN 10 ELSE 2)
             /\ fnIn.cut >= Len(hdr) => got.ok
             /\ got.ok => (got.length = fnIn.n /\ got.used = Len(hdr))
             /\ (fnIn.enc = MinimalEnc(fnIn.n) /\ fnIn.n = 10) => marker = 10
             /\ (fnIn.enc = MinimalEnc(fnIn.n) /\ fnIn.n = 200) => marker = 126
             /\ (fnIn.enc = MinimalEnc(fnIn.n) /\ fnIn.n = 70000) => marker = 127

C7_Witness ==
    /\ fnOut.fn = "wslen"
    /\ fnIn.n = 70000
    /\ fnIn.enc = MinimalEnc(70000)
    /\ fnIn.mask = 0
    /\ fnOut.got = [ok |-> TRUE, length |-> 70000, used |-> 10]

(***************************************************************************)
(* C11.  In the event loop every failure of the read of an event but a     *)
(* timeout leads to CLEANUP: a read that fails on a reset connection or    *)
(* finds the peer closed, and a payload that is not JSON.                  *)
(***************************************************************************)
C11_ReadFailureLeavesLoop ==
    [][/\ ((RecvHead \/ RecvExt \/ RecvPayload) /\ Recv(1).kind \in {"error", "eof"})
            => pc' = "cleanup"
       /\ (DispatchStep /\ ~WsJsonLoads(data).ok)
            => pc' = "cleanup"]_vars

(***************************************************************************)
(* C12.  The dispatch of a discord:clear event writes one SET_ACTIVITY     *)
(* frame with activity null, whatever the stored key is.                   *)
(***************************************************************************)
C12_ClearWritesNull ==
    [][(DispatchStep /\ EventOf(data) = "discord:clear" /\ ipcUp)
         => Written = <<ClearFrame>>]_vars

(***************************************************************************)
(* C13.  Every failure path is silent: main() never ends by an exception   *)
(* that escapes it.                                                        *)
(***************************************************************************)
C13_NoUncaughtError == pc # "crashed"

(***************************************************************************)
(* C14.  A handshake whose response frame was not received is fatal: the   *)
(* step after it writes no frame and attempts no connection, and main() is *)
(* over.                                                                   *)
(***************************************************************************)
C14_HandshakeFailureIsFatal ==
    [][(pc = "set_idle" /\ hsReply = None /\ pc' # pc)
         => (Written = <<>> /\ tried' = tried /\ Over')]_vars

(***************************************************************************)
(* C15.  When main() has ended through the event loop the IPC connection   *)
(* is closed, the clearing write having failed or not.                     *)
(***************************************************************************)
C15_CleanupClosesIpc == ExitedFromLoop => ~ipcOpen

(***************************************************************************)
(* C16.  Every iteration of the event loop terminates: from the read of a  *)
(* frame the loop comes back to the watchdog probe or leaves for CLEANUP.  *)
(***************************************************************************)
C16_IterationTerminates ==
    (pc \in {"head", "ext", "payload", "dispatch"}) ~> (pc \in {"watchdog", "cleanup", "exited"})

(***************************************************************************)
(* C17.  An event that is none of discord:update, discord:clear and        *)
(* windowClose is ignored: no frame is written, LAST_STATUS is unchanged   *)
(* and the loop is not left.                                               *)
(***************************************************************************)
C17_OtherEventIgnored ==
    (/\ fnOut.fn = "dispatch"
     /\ WsJsonLoads(fnIn.d).ok
     /\ EventOf(fnIn.d) \notin {"discord:update", "discord:clear", "windowClose"})
      => fnOut.res = [last |-> fnIn.last, out |-> <<>>, brk |-> FALSE]

C17_Witness ==
    /\ fnOut.fn = "dispatch"
    /\ EventOf(fnIn.d) = "ready"
    /\ fnIn.last = DedupKey(IdleArgs)
    /\ fnIn.up
    /\ fnOut.res = [last |-> DedupKey(IdleArgs), out |-> <<>>, brk |-> FALSE]

(***************************************************************************)
(* C18.  LAST_STATUS is the key of the last activity written: a dispatch   *)
(* that writes no frame leaves it unchanged.                               *)
(***************************************************************************)
C18_KeyOnlyOfWrittenFrame ==
    [][(DispatchStep /\ Written = <<>>) => LAST_STATUS' = LAST_STATUS]_vars

(***************************************************************************)
(* C19.  DedupKey is faithful: two calls of set_activity with the same key *)
(* build the same activity.                                                *)
(***************************************************************************)
C19_KeyFaithful ==
    (fnOut.fn = "keys" /\ fnOut.ka = fnOut.kb) => fnOut.builta = fnOut.builtb

(***************************************************************************)
(* C20.  Frame alignment: every header the loop decodes starts at a frame  *)
(* boundary of the stream (the byte 0x81 that opens each frame of the      *)
(* server and occurs nowhere else in them), every payload dispatched is    *)
(* the payload of a frame the server sent, and a timeout or a short read   *)
(* sends the loop back to the watchdog only when no byte of a frame has    *)
(* been consumed.                                                          *)
(***************************************************************************)
C20_FrameAlignment ==
    [][/\ (RecvHead /\ pc' \in {"ext", "payload", "dispatch"}) => wsIn[1] = 129
       /\ (pc # "dispatch" /\ pc' = "dispatch")
            => data' \in {WsPayload(c) : c \in 0..Len(WsMsgs)}
       /\ (/\ RecvHead \/ RecvExt \/ RecvPayload
           /\ Recv(1).kind \in {"timeout", "data"}
           /\ pc' = "watchdog")
            => (pc = "head" /\ wsIn' = wsIn)]_vars

====
